---- MODULE Spec2Model ----
(***************************************************************************)
(* rowboat: mapping between CSV rows and typed records.                    *)
(*                                                                         *)
(* The module models the field resolver (createFieldInfo / createFieldMap),*)
(* the value codec (setFieldValue / getFieldStringValue), the Reader       *)
(* (NewReader, nextRow, All) and the Writer (NewWriter, Write, WriteAll).  *)
(*                                                                         *)
(* Text is a sequence of one-character strings, so that formatting and     *)
(* parsing are computed and not assumed.  Positions of struct fields are   *)
(* 0-based as in Go (Field.Index[0]); sequences are 1-based as in TLA+.    *)
(***************************************************************************)
EXTENDS Integers, Sequences, FiniteSets, TLC

VARIABLES
  T,        \* the record type: a sequence of field declarations
  rw,       \* the Writer object: fields, writeHeaderOnce (NoWriter before NewWriter)
  csvw,     \* the csv.Writer under the Writer: rows accepted, sticky error, rows flushed
  wcall,    \* the last call on the Writer and what it returned
  rb,       \* the Reader object: headers, fieldMap, err, current (NoReader before NewReader)
  src,      \* the lines the csv.Reader has not yet read
  consumed, \* the lines the csv.Reader has read since the header
  trav,     \* the traversal of Reader.All in progress or last ended
  codec,    \* the last call of the value codec and its result
  filt      \* a traversal of Filter(f, s): what it pulled, evaluated and yielded

vars == <<T, rw, csvw, wcall, rb, src, consumed, trav, codec, filt>>

(***************************************************************************)
(* Bounds of the model.                                                    *)
(***************************************************************************)
MaxFields == 3
MaxIndex == 2
MaxLines == 3
MaxRecords == 3
MaxCalls == 2
MaxSource == 3
MaxElem == 2

(***************************************************************************)
(* Text: strconv's conversions, computed digit by digit.                   *)
(***************************************************************************)
DigitChars == <<"0", "1", "2", "3", "4", "5", "6", "7", "8", "9">>

IsDigit(c) == \E d \in 1..10 : DigitChars[d] = c

DigitVal(c) == (CHOOSE d \in 1..10 : DigitChars[d] = c) - 1

\* the value of a run of digits s[i..], given the value acc of s[..i-1]
RECURSIVE DigitsValue(_, _, _)
DigitsValue(s, i, acc) ==
  IF i > Len(s) THEN acc ELSE DigitsValue(s, i + 1, acc * 10 + DigitVal(s[i]))

AllDigits(s) == Len(s) > 0 /\ \A i \in 1..Len(s) : IsDigit(s[i])

\* strconv.ParseInt(s, 10, 64): an optional sign, then one or more digits
ParseInt(s) ==
  LET signed == Len(s) > 0 /\ s[1] \in {"+", "-"}
      body == IF signed THEN Tail(s) ELSE s
  IN IF ~AllDigits(body) THEN [err |-> TRUE, n |-> 0]
     ELSE [err |-> FALSE,
           n |-> IF signed /\ s[1] = "-" THEN 0 - DigitsValue(body, 1, 0)
                 ELSE DigitsValue(body, 1, 0)]

\* the signed integer kinds of the model: int (64 bits) and int8
IntKinds == {"int", "int8"}

\* the width in bits of a signed integer kind
IntBits(k) == IF k = "int8" THEN 8 ELSE 64

\* reflect.Value.SetInt(x) on a field of kind k: the field takes the low
\* IntBits(k) bits of x.  (No text of the model reaches the 64-bit boundary, so
\* a 64-bit field holds x itself.)
SetInt(k, x) ==
  IF IntBits(k) = 64 THEN x
  ELSE LET m == 2 ^ IntBits(k)
       IN ((x + m \div 2) % m) - m \div 2

\* strconv.FormatUint(n, 10)
RECURSIVE FormatUint(_)
FormatUint(n) ==
  IF n < 10 THEN <<DigitChars[n + 1]>>
  ELSE FormatUint(n \div 10) \o <<DigitChars[(n % 10) + 1]>>

\* strconv.FormatInt(n, 10)
FormatInt(n) == IF n < 0 THEN <<"-">> \o FormatUint(0 - n) ELSE FormatUint(n)

\* strconv.ParseBool
BoolTrueTexts ==
  {<<"1">>, <<"t">>, <<"T">>, <<"t", "r", "u", "e">>, <<"T", "R", "U", "E">>,
   <<"T", "r", "u", "e">>}
BoolFalseTexts ==
  {<<"0">>, <<"f">>, <<"F">>, <<"f", "a", "l", "s", "e">>, <<"F", "A", "L", "S", "E">>,
   <<"F", "a", "l", "s", "e">>}

ParseBool(s) ==
  IF s \in BoolTrueTexts THEN [err |-> FALSE, b |-> TRUE]
  ELSE IF s \in BoolFalseTexts THEN [err |-> FALSE, b |-> FALSE]
  ELSE [err |-> TRUE, b |-> FALSE]

\* strconv.FormatBool
FormatBool(b) == IF b THEN <<"t", "r", "u", "e">> ELSE <<"f", "a", "l", "s", "e">>

\* Floats are counted in tenths: the float64 value v/10 is the integer v.
\* strconv.ParseFloat(s, 64) on decimal text: [sign] digits [ "." digit ]
ParseFloat(s) ==
  LET signed == Len(s) > 0 /\ s[1] \in {"+", "-"}
      body == IF signed THEN Tail(s) ELSE s
      n == Len(body)
      frac == n >= 3 /\ body[n - 1] = "."
      whole == IF frac THEN SubSeq(body, 1, n - 2) ELSE body
      ok == AllDigits(whole) /\ (frac => IsDigit(body[n]))
      mag == DigitsValue(whole, 1, 0) * 10 + (IF frac THEN DigitVal(body[n]) ELSE 0)
  IN IF ~ok THEN [err |-> TRUE, v |-> 0]
     ELSE [err |-> FALSE, v |-> IF signed /\ s[1] = "-" THEN 0 - mag ELSE mag]

\* strconv.FormatFloat(v, 'f', -1, 64): the shortest decimal text
FormatFloat(v) ==
  LET mag == IF v < 0 THEN 0 - v ELSE v
      txt == IF mag % 10 = 0 THEN FormatUint(mag \div 10)
             ELSE FormatUint(mag \div 10) \o <<".", DigitChars[(mag % 10) + 1]>>
  IN IF v < 0 THEN <<"-">> \o txt ELSE txt

\* time.Time values are [sec, nsec]; RFC 3339 text has whole seconds only.
\* The text of second k is the one-token text <<"T", digits of k, "Z">>.
TimeParse(s) ==
  IF Len(s) >= 3 /\ s[1] = "T" /\ s[Len(s)] = "Z" /\ AllDigits(SubSeq(s, 2, Len(s) - 1))
  THEN [err |-> FALSE, t |-> [sec |-> DigitsValue(SubSeq(s, 2, Len(s) - 1), 1, 0), nsec |-> 0]]
  ELSE [err |-> TRUE, t |-> [sec |-> 0, nsec |-> 0]]

TimeFormat(t) == <<"T">> \o FormatUint(t.sec) \o <<"Z">>

(***************************************************************************)
(* Field types.  A type is described by what reflection reports of it:     *)
(* its kind, whether it is time.Time, and how it declares the hooks        *)
(* UnmarshalCSV (unm) and MarshalCSV (mar): not at all, on the value       *)
(* receiver (the type itself implements the interface) or on the pointer   *)
(* receiver (only a pointer to it does).                                   *)
(***************************************************************************)
PlainType(k) == [kind |-> k, time |-> FALSE, unm |-> "none", mar |-> "none"]

TimeType == [kind |-> "struct", time |-> TRUE, unm |-> "none", mar |-> "none"]

HookType(k, u, m) == [kind |-> k, time |-> FALSE, unm |-> u, mar |-> m]

\* the zero value of a type
ZeroValue(typ) ==
  CASE typ.time -> [sec |-> 0, nsec |-> 0]
    [] typ.kind = "string" -> <<>>
    [] typ.kind \in IntKinds \cup {"uint", "float64"} -> 0
    [] typ.kind = "bool" -> FALSE
    [] OTHER -> [X |-> 0]

(***************************************************************************)
(* Struct tags.  A csv tag is modelled split at its commas: the name       *)
(* (component 0) and the options, each <<key, value>> standing for the     *)
(* text key=value.  NoTag is the absent tag, SkipTag the tag "-".          *)
(***************************************************************************)
NoTag == [name |-> <<>>, opts |-> <<>>]
SkipTag == [name |-> <<"-">>, opts |-> <<>>]
NameTag(nm) == [name |-> nm, opts |-> <<>>]
IndexTag(nm, n) == [name |-> nm, opts |-> <<<<"index", FormatInt(n)>>>>]
BadIndexTag == [name |-> <<>>, opts |-> <<<<"index", <<"x">>>>>>]

FieldNames == <<"A", "B", "C", "D", "E", "F", "G", "H", "I", "J", "K", "L", "M", "N">>

\* the struct field at 0-based position i
Decl(i, tag, typ, exported) ==
  [name |-> <<FieldNames[i + 1]>>, pos |-> i, tag |-> tag, typ |-> typ,
   exported |-> exported]

(***************************************************************************)
(* The field resolver: createFieldInfo (Writer), and the same code in      *)
(* createFieldMap (Reader).                                                *)
(***************************************************************************)
\* strconv.Atoi on the value of an index option
Atoi(v) == ParseInt(v)

\* the loop over tagParts[1:] for one field: st = [err, index, maxIndex]
RECURSIVE ApplyParts(_, _, _)
ApplyParts(parts, k, st) ==
  IF k > Len(parts) \/ st.err THEN st
  ELSE LET part == parts[k] IN
       IF part[1] = "index"
       THEN LET a == Atoi(part[2]) IN
            IF a.err THEN [st EXCEPT !.err = TRUE]
            ELSE ApplyParts(parts, k + 1,
                   [st EXCEPT !.index = a.n,
                              !.maxIndex = IF a.n > st.maxIndex THEN a.n ELSE st.maxIndex])
       ELSE ApplyParts(parts, k + 1, st)

\* first pass: collect the fields and their indexes; acc = [err, fields, maxIndex]
RECURSIVE CollectFields(_, _, _)
CollectFields(t, i, acc) ==
  IF i > Len(t) \/ acc.err THEN acc
  ELSE LET field == t[i] IN
       IF field.tag = SkipTag THEN CollectFields(t, i + 1, acc)
       ELSE LET name == IF field.tag.name # <<>> THEN field.tag.name ELSE field.name
                st == ApplyParts(field.tag.opts, 1,
                        [err |-> FALSE, index |-> i - 1, maxIndex |-> acc.maxIndex])
            IN IF st.err THEN [acc EXCEPT !.err = TRUE]
               ELSE CollectFields(t, i + 1,
                      [acc EXCEPT !.fields = Append(@, [Index |-> st.index,
                                                         Name |-> name,
                                                         Field |-> field]),
                                  !.maxIndex = st.maxIndex])

\* the test "this field has no explicit index" of the second pass
IsDefaultIndex(fi) == fi.Index = fi.Field.pos

\* second pass: fields still at their default index get maxIndex+1, +2, ...
RECURSIVE AssignIndexes(_, _, _)
AssignIndexes(fields, i, nextIndex) ==
  IF i > Len(fields) THEN fields
  ELSE IF IsDefaultIndex(fields[i])
       THEN AssignIndexes([fields EXCEPT ![i].Index = nextIndex], i + 1, nextIndex + 1)
       ELSE AssignIndexes(fields, i + 1, nextIndex)

\* sort.Slice on a slice of at most maxInsertion elements is an insertion
\* sort: element j moves left while it is less than its left neighbour
maxInsertion == 12

RECURSIVE SiftLeft(_, _)
SiftLeft(s, j) ==
  IF j > 1 /\ s[j].Index < s[j - 1].Index
  THEN SiftLeft([s EXCEPT ![j] = s[j - 1], ![j - 1] = s[j]], j - 1)
  ELSE s

RECURSIVE InsertionSort(_, _)
InsertionSort(s, i) ==
  IF i > Len(s) THEN s ELSE InsertionSort(SiftLeft(s, i), i + 1)

Swap(s, i, j) == [s EXCEPT ![i] = s[j], ![j] = s[i]]

\* order2: the two positions a, b in the order of their elements, and whether
\* they were exchanged
Order2(s, a, b) == IF s[b].Index < s[a].Index THEN <<b, a, 1>> ELSE <<a, b, 0>>

\* choosePivot on a slice of 8 to 49 elements: the median of the elements at
\* 1/4, 2/4 and 3/4 of the slice, and the number of exchanges it took
ChoosePivot(s) ==
  LET q == Len(s) \div 4
      o1 == Order2(s, q + 1, 2 * q + 1)
      o2 == Order2(s, o1[2], 3 * q + 1)
      o3 == Order2(s, o1[1], o2[1])
  IN [pivot |-> o3[2], swaps |-> o1[3] + o2[3] + o3[3]]

\* partialInsertionSort on a slice of fewer than 50 elements changes nothing
\* and reports whether the slice is sorted already
IsSorted(s) == \A i \in 1..(Len(s) - 1) : ~(s[i + 1].Index < s[i].Index)

\* partition: the pivot is at s[1]; i moves right over the elements less than
\* the pivot, j moves left over the others, s[i] and s[j] are exchanged
RECURSIVE ScanUp(_, _, _)
ScanUp(s, i, j) ==
  IF i <= j /\ s[i].Index < s[1].Index THEN ScanUp(s, i + 1, j) ELSE i

RECURSIVE ScanDown(_, _, _)
ScanDown(s, i, j) ==
  IF i <= j /\ ~(s[j].Index < s[1].Index) THEN ScanDown(s, i, j - 1) ELSE j

RECURSIVE PartitionLoop(_, _, _)
PartitionLoop(s, i, j) ==
  IF ScanUp(s, i, j) > ScanDown(s, ScanUp(s, i, j), j)
  THEN [s |-> Swap(s, ScanDown(s, ScanUp(s, i, j), j), 1),
        mid |-> ScanDown(s, ScanUp(s, i, j), j)]
  ELSE PartitionLoop(Swap(s, ScanUp(s, i, j), ScanDown(s, ScanUp(s, i, j), j)),
                     ScanUp(s, i, j) + 1, ScanDown(s, ScanUp(s, i, j), j) - 1)

Partition(s, pivot) == PartitionLoop(Swap(s, 1, pivot), 2, Len(s))

\* the two sides of a partition, each of at most maxInsertion elements
SortSides(p) ==
  InsertionSort(SubSeq(p.s, 1, p.mid - 1), 2) \o <<p.s[p.mid]>>
    \o InsertionSort(SubSeq(p.s, p.mid + 1, Len(p.s)), 2)

\* pdqsort on a slice of more than maxInsertion elements whose partition leaves
\* at most maxInsertion on each side: one partition, then insertion sorts
PdqSort(s) ==
  IF ChoosePivot(s).swaps = 0 /\ IsSorted(s) THEN s
  ELSE SortSides(Partition(s, ChoosePivot(s).pivot))

\* sort.Slice(fields, func(i, j) { return fields[i].Index < fields[j].Index })
SortByIndex(fields) ==
  IF Len(fields) <= maxInsertion THEN InsertionSort(fields, 2) ELSE PdqSort(fields)

createFieldInfo(t) ==
  LET c == CollectFields(t, 1, [err |-> FALSE, fields |-> <<>>, maxIndex |-> -1])
  IN IF c.err THEN [err |-> TRUE, fields |-> <<>>]
     ELSE [err |-> FALSE,
           fields |-> SortByIndex(AssignIndexes(c.fields, 1, c.maxIndex + 1))]

NoWriter == [state |-> "none", fields |-> <<>>, writeHeaderOnce |-> FALSE]

NewWriter(t) ==
  LET r == createFieldInfo(t)
  IN IF r.err THEN [state |-> "error", fields |-> <<>>, writeHeaderOnce |-> FALSE]
     ELSE [state |-> "ready", fields |-> r.fields, writeHeaderOnce |-> FALSE]

(***************************************************************************)
(* The value codec.  A reflected field is [typ, canAddr, canInterface,     *)
(* val]: its type, whether it is addressable, whether it is exported, and  *)
(* the value it holds.                                                     *)
(*                                                                         *)
(* The hooks are user code.  The modelled hook text is "#" followed by the *)
(* payload; UnmarshalCSV rejects any other text, and MarshalCSV rejects    *)
(* the value HookRejects(typ).                                             *)
(***************************************************************************)
Reflected(typ, canAddr, canInterface, val) ==
  [typ |-> typ, canAddr |-> canAddr, canInterface |-> canInterface, val |-> val]

HookPayloadText(typ, v) ==
  CASE typ.kind = "string" -> v
    [] typ.kind \in IntKinds -> FormatInt(v)
    [] typ.kind = "uint" -> FormatUint(v)
    [] typ.kind = "float64" -> FormatFloat(v)
    [] typ.kind = "bool" -> FormatBool(v)
    [] OTHER -> FormatInt(v.X)

HookPayloadParse(typ, s) ==
  CASE typ.kind = "string" -> [err |-> FALSE, val |-> s]
    [] typ.kind \in IntKinds \cup {"uint"} -> [err |-> ParseInt(s).err, val |-> ParseInt(s).n]
    [] typ.kind = "float64" -> [err |-> ParseFloat(s).err, val |-> ParseFloat(s).v]
    [] typ.kind = "bool" -> [err |-> ParseBool(s).err, val |-> ParseBool(s).b]
    [] OTHER -> [err |-> ParseInt(s).err, val |-> [X |-> ParseInt(s).n]]

HookRejects(typ) ==
  CASE typ.kind = "string" -> <<"!">>
    [] typ.kind \in IntKinds \cup {"uint", "float64"} -> 9
    [] typ.kind = "bool" -> TRUE
    [] OTHER -> [X |-> 9]

\* CSVUnmarshaler.UnmarshalCSV(value)
UnmarshalCSV(typ, s) ==
  IF Len(s) = 0 \/ s[1] # "#" THEN [err |-> TRUE, val |-> ZeroValue(typ)]
  ELSE LET p == HookPayloadParse(typ, Tail(s))
       IN IF p.err THEN [err |-> TRUE, val |-> ZeroValue(typ)] ELSE p

\* CSVMarshaler.MarshalCSV()
MarshalCSV(typ, v) ==
  IF v = HookRejects(typ) THEN [err |-> TRUE, text |-> <<>>]
  ELSE [err |-> FALSE, text |-> <<"#">> \o HookPayloadText(typ, v)]

\* setFieldValue(field, value): via names the rule that decided, val is the
\* value the field holds afterwards
setFieldValue(field, value) ==
  LET typ == field.typ IN
  IF field.canInterface /\ typ.unm = "value"
  THEN \* the hook runs on a copy of the field
       [via |-> "hook", err |-> UnmarshalCSV(typ, value).err, val |-> field.val]
  ELSE IF field.canAddr /\ field.canInterface /\ typ.unm \in {"value", "pointer"}
  THEN LET h == UnmarshalCSV(typ, value)
       IN [via |-> "hook", err |-> h.err, val |-> IF h.err THEN field.val ELSE h.val]
  ELSE IF typ.time
  THEN LET p == TimeParse(value)
       IN [via |-> "time", err |-> p.err, val |-> IF p.err THEN field.val ELSE p.t]
  ELSE CASE typ.kind = "string" -> [via |-> "kind", err |-> FALSE, val |-> value]
         [] typ.kind \in IntKinds ->
              LET p == ParseInt(value)
              IN [via |-> "kind", err |-> p.err,
                  val |-> IF p.err THEN field.val ELSE SetInt(typ.kind, p.n)]
         [] typ.kind = "float64" ->
              LET p == ParseFloat(value)
              IN [via |-> "kind", err |-> p.err, val |-> IF p.err THEN field.val ELSE p.v]
         [] typ.kind = "bool" ->
              LET p == ParseBool(value)
              IN [via |-> "kind", err |-> p.err, val |-> IF p.err THEN field.val ELSE p.b]
         [] OTHER -> [via |-> "unsupported", err |-> TRUE, val |-> field.val]

\* getFieldStringValue(field)
getFieldStringValue(field) ==
  LET typ == field.typ IN
  IF field.canInterface /\ typ.mar = "value"
  THEN [via |-> "hook"] @@ MarshalCSV(typ, field.val)
  ELSE IF field.canAddr /\ field.canInterface /\ typ.mar \in {"value", "pointer"}
  THEN [via |-> "hook"] @@ MarshalCSV(typ, field.val)
  ELSE IF typ.time
  THEN IF field.canInterface
       THEN [via |-> "time", err |-> FALSE, text |-> TimeFormat(field.val)]
       ELSE [via |-> "panic", err |-> TRUE, text |-> <<>>]
  ELSE CASE typ.kind = "string" -> [via |-> "kind", err |-> FALSE, text |-> field.val]
         [] typ.kind \in IntKinds ->
              [via |-> "kind", err |-> FALSE, text |-> FormatInt(field.val)]
         [] typ.kind = "uint" ->
              [via |-> "kind", err |-> FALSE, text |-> FormatUint(field.val)]
         [] typ.kind = "float64" ->
              [via |-> "kind", err |-> FALSE, text |-> FormatFloat(field.val)]
         [] typ.kind = "bool" ->
              [via |-> "kind", err |-> FALSE, text |-> FormatBool(field.val)]
         [] OTHER -> [via |-> "unsupported", err |-> TRUE, text |-> <<>>]

(***************************************************************************)
(* The row source: encoding/csv's Reader over the lines of the input.  A   *)
(* line is blank, malformed ("bad": a quoting error), or a row of cells.   *)
(***************************************************************************)
BlankLine == [k |-> "blank", cells |-> <<>>]
BadLine == [k |-> "bad", cells |-> <<>>]
RowLine(cells) == [k |-> "row", cells |-> cells]

\* the number of blank lines at the head of the lines
RECURSIVE LeadingBlanks(_)
LeadingBlanks(lines) ==
  IF lines # <<>> /\ Head(lines).k = "blank" THEN 1 + LeadingBlanks(Tail(lines)) ELSE 0

\* csvRead that hands a blank line on as a row of no cells
csvReadBlankAsRow(lines, nfields) ==
  IF lines = <<>> THEN [res |-> "eof", cells |-> <<>>, used |-> 0]
  ELSE LET line == Head(lines)
       IN IF line.k = "bad" THEN [res |-> "err", cells |-> <<>>, used |-> 1]
          ELSE IF nfields > 0 /\ Len(line.cells) # nfields
          THEN [res |-> "err", cells |-> line.cells, used |-> 1]
          ELSE [res |-> "row", cells |-> line.cells, used |-> 1]

\* csv.Reader.Read: blank lines are skipped; nfields is FieldsPerRecord (0: not
\* yet set).  used is the number of lines read.
csvRead(lines, nfields) ==
  LET b == LeadingBlanks(lines)
      rest == SubSeq(lines, b + 1, Len(lines))
  IN IF rest = <<>> THEN [res |-> "eof", cells |-> <<>>, used |-> b]
     ELSE LET line == Head(rest)
          IN IF line.k = "bad" THEN [res |-> "err", cells |-> <<>>, used |-> b + 1]
             ELSE IF nfields > 0 /\ Len(line.cells) # nfields
             THEN [res |-> "err", cells |-> line.cells, used |-> b + 1]
             ELSE [res |-> "row", cells |-> line.cells, used |-> b + 1]

(***************************************************************************)
(* The Reader.                                                             *)
(***************************************************************************)
NoError == [kind |-> "nil", at |-> 0]

NoReader ==
  [state |-> "none", headers |-> <<>>, fieldMap |-> <<>>, err |-> NoError,
   current |-> <<>>]

\* strings.TrimSpace
RECURSIVE TrimLeft(_)
TrimLeft(s) == IF s # <<>> /\ Head(s) = " " THEN TrimLeft(Tail(s)) ELSE s

RECURSIVE TrimRight(_)
TrimRight(s) ==
  IF s # <<>> /\ s[Len(s)] = " " THEN TrimRight(SubSeq(s, 1, Len(s) - 1)) ELSE s

TrimSpace(s) == TrimRight(TrimLeft(s))

\* headerMap: the column of each trimmed header name; a later column replaces
\* an earlier one of the same name.  Columns are counted from 1 here.
HeaderColumn(headers, name) ==
  LET cols == {j \in 1..Len(headers) : TrimSpace(headers[j]) = name}
  IN IF cols = {} THEN 0 ELSE CHOOSE j \in cols : \A k \in cols : k <= j

\* a field map by position: column i holds the i-th resolved field, whatever the header
RECURSIVE BuildFieldMapByPosition(_, _, _, _)
BuildFieldMapByPosition(fields, i, headers, fm) ==
  IF i > Len(fields) \/ i > Len(headers) THEN fm
  ELSE BuildFieldMapByPosition(fields, i + 1, headers,
         [j \in DOMAIN fm \cup {i} |-> IF j = i THEN fields[i].Field ELSE fm[j]])

\* the final loop of createFieldMap: fieldMap[idx] = fi.field, in resolved order
RECURSIVE BuildFieldMap(_, _, _, _)
BuildFieldMap(fields, i, headers, fm) ==
  IF i > Len(fields) THEN fm
  ELSE LET idx == HeaderColumn(headers, fields[i].Name)
       IN BuildFieldMap(fields, i + 1, headers,
            IF idx = 0 THEN fm
            ELSE [j \in DOMAIN fm \cup {idx} |->
                    IF j = idx THEN fields[i].Field ELSE fm[j]])

createFieldMap(t, headers) ==
  LET c == CollectFields(t, 1, [err |-> FALSE, fields |-> <<>>, maxIndex |-> -1])
  IN IF c.err THEN [err |-> TRUE, fieldMap |-> <<>>]
     ELSE [err |-> FALSE,
           fieldMap |-> BuildFieldMap(
                          SortByIndex(AssignIndexes(c.fields, 1, c.maxIndex + 1)),
                          1, headers, <<>>)]

\* NewReader over the lines of the input: the reader and the lines left
NewReader(t, lines) ==
  LET h == csvRead(lines, 0)
      left == SubSeq(lines, h.used + 1, Len(lines))
  IN IF h.res # "row" THEN [rb |-> [NoReader EXCEPT !.state = "error"], src |-> left]
     ELSE LET m == createFieldMap(t, h.cells)
          IN IF m.err THEN [rb |-> [NoReader EXCEPT !.state = "error"], src |-> left]
             ELSE [rb |-> [state |-> "ready", headers |-> h.cells,
                           fieldMap |-> m.fieldMap, err |-> NoError,
                           current |-> <<>>],
                   src |-> left]

\* the zero value of the record type: one value per field, by position
ZeroRecord(t) == [p \in 1..Len(t) |-> ZeroValue(t[p].typ)]

\* the loop of nextRow over the cells of one row: st = [err, field, t]
RECURSIVE DecodeCells(_, _, _, _)
DecodeCells(fieldMap, record, idx, st) ==
  IF idx > Len(record) \/ st.err THEN st
  ELSE IF idx \notin DOMAIN fieldMap THEN DecodeCells(fieldMap, record, idx + 1, st)
  ELSE LET field == fieldMap[idx] IN
       IF ~field.exported THEN DecodeCells(fieldMap, record, idx + 1, st)
       ELSE LET r == setFieldValue(
                       Reflected(field.typ, TRUE, TRUE, st.t[field.pos + 1]),
                       record[idx])
            IN IF r.err THEN [st EXCEPT !.err = TRUE, !.field = field.name]
               ELSE DecodeCells(fieldMap, record, idx + 1,
                      [st EXCEPT !.t[field.pos + 1] = r.val])

\* nextRow: ok is its result; n is the number of lines read before the call
nextRow(t, r, lines, n) ==
  LET rd == csvRead(lines, Len(r.headers))
      left == SubSeq(lines, rd.used + 1, Len(lines))
  IN IF rd.res = "eof" THEN [ok |-> FALSE, saw |-> "eof", rb |-> r, src |-> left]
     ELSE IF rd.res = "err"
     THEN [ok |-> FALSE, saw |-> "error",
           rb |-> [r EXCEPT !.err = [kind |-> "tokenizer", at |-> n + rd.used]],
           src |-> left]
     ELSE LET d == DecodeCells(r.fieldMap, rd.cells, 1,
                     [err |-> FALSE, field |-> <<>>, t |-> ZeroRecord(t)])
          IN IF d.err
             THEN [ok |-> FALSE, saw |-> "error",
                   rb |-> [r EXCEPT !.err = [kind |-> "decode", at |-> n + rd.used]],
                   src |-> left]
             ELSE [ok |-> TRUE, saw |-> "row", rb |-> [r EXCEPT !.current = d.t],
                   src |-> left]

\* All, after nextRow has returned false: the check of rb.err
AfterLoop(r) == IF r.err # NoError THEN "panicked" ELSE "returned"

\* a yield that breaks out of the loop instead of returning
AfterYieldBreaks(r, keepGoing) == IF keepGoing THEN "running" ELSE AfterLoop(r)

\* All, after yield has returned: the loop goes on, or the function returns
AfterYield(r, keepGoing) == IF keepGoing THEN "running" ELSE "returned"

(***************************************************************************)
(* The row sink: encoding/csv's Writer.  rows are the rows Write accepted, *)
(* flushed is how many of them Flush has passed on to the io.Writer, err   *)
(* is the sticky error of the buffer, and quota is the number of flushes   *)
(* the io.Writer will still take before it fails (-1: it never fails).     *)
(***************************************************************************)
NewCsvWriter(quota) == [rows |-> <<>>, flushed |-> 0, err |-> FALSE, quota |-> quota]

\* csv.Writer.Write(row): fails once the buffer holds an error
csvWrite(w, row) ==
  IF w.err THEN [err |-> TRUE, w |-> w]
  ELSE [err |-> FALSE, w |-> [w EXCEPT !.rows = Append(@, row)]]

\* csv.Writer.Flush(): it returns nothing; a failure stays in the buffer
csvFlush(w) ==
  IF w.err \/ w.flushed = Len(w.rows) THEN w
  ELSE IF w.quota = 0 THEN [w EXCEPT !.err = TRUE]
  ELSE [w EXCEPT !.flushed = Len(w.rows),
                 !.quota = IF @ > 0 THEN @ - 1 ELSE @]

HeaderRow(fields) == [hdr |-> TRUE, cells |-> [i \in 1..Len(fields) |-> fields[i].Name]]

\* a header part that never sets writeHeaderOnce
WriteHeaderPartUnflagged(w, cw) ==
  IF w.writeHeaderOnce THEN [err |-> "nil", rw |-> w, csvw |-> cw]
  ELSE LET r == csvWrite(cw, HeaderRow(w.fields))
       IN IF r.err THEN [err |-> "sink", rw |-> w, csvw |-> cw]
          ELSE [err |-> "nil", rw |-> w, csvw |-> csvFlush(r.w)]

\* Write, first part: the header, if it is not written yet
\* (w.writeHeaderOnce is set after the header is written and flushed)
WriteHeaderPart(w, cw) ==
  IF w.writeHeaderOnce THEN [err |-> "nil", rw |-> w, csvw |-> cw]
  ELSE LET r == csvWrite(cw, HeaderRow(w.fields))
       IN IF r.err THEN [err |-> "sink", rw |-> w, csvw |-> cw]
          ELSE [err |-> "nil", rw |-> [w EXCEPT !.writeHeaderOnce = TRUE],
                csvw |-> csvFlush(r.w)]

\* Write, the loop over rw.fields: st = [err, values]
RECURSIVE EncodeFields(_, _, _, _)
EncodeFields(fields, record, i, st) ==
  IF i > Len(fields) \/ st.err # "nil" THEN st
  ELSE LET f == fields[i].Field
           r == getFieldStringValue(
                  Reflected(f.typ, FALSE, f.exported, record[f.pos + 1]))
       IN IF r.via = "panic" THEN [st EXCEPT !.err = "panic"]
          ELSE IF r.err THEN [st EXCEPT !.err = "encode"]
          ELSE EncodeFields(fields, record, i + 1,
                 [st EXCEPT !.values = Append(@, r.text)])

\* Write(record): err is what it returns
Write(w, cw, record) ==
  LET h == WriteHeaderPart(w, cw)
  IN IF h.err # "nil" THEN h
     ELSE LET e == EncodeFields(h.rw.fields, record, 1, [err |-> "nil", values |-> <<>>])
          IN IF e.err # "nil" THEN [err |-> e.err, rw |-> h.rw, csvw |-> h.csvw]
             ELSE LET r == csvWrite(h.csvw, [hdr |-> FALSE, cells |-> e.values])
                  IN IF r.err THEN [err |-> "sink", rw |-> h.rw, csvw |-> h.csvw]
                     ELSE [err |-> "nil", rw |-> h.rw, csvw |-> csvFlush(r.w)]

\* a WriteAll that goes on after a failed Write and returns the last result
RECURSIVE WriteAllKeepsGoing(_, _, _, _)
WriteAllKeepsGoing(w, cw, records, k) ==
  IF k > Len(records) THEN [err |-> "nil", rw |-> w, csvw |-> cw, pulled |-> k - 1]
  ELSE LET r == Write(w, cw, records[k])
       IN IF k = Len(records) THEN r @@ [pulled |-> k]
          ELSE WriteAllKeepsGoing(r.rw, r.csvw, records, k + 1)

\* WriteAll(records): records are pulled one by one until a Write fails
RECURSIVE WriteAll(_, _, _, _)
WriteAll(w, cw, records, k) ==
  IF k > Len(records) THEN [err |-> "nil", rw |-> w, csvw |-> cw, pulled |-> k - 1]
  ELSE LET r == Write(w, cw, records[k])
       IN IF r.err # "nil" THEN r @@ [pulled |-> k]
          ELSE WriteAll(r.rw, r.csvw, records, k + 1)

\* WriteHeader(): the explicit header emission of the README; it is ahead of
\* a first Write what the header part of Write is
WriteHeader(w, cw) == WriteHeaderPart(w, cw)

(***************************************************************************)
(* The text between Writer and Reader: csv.Writer writes a row as one      *)
(* line, and a row of a single empty cell as an empty line.                *)
(***************************************************************************)
csvLine(row) == IF row.cells = <<<<>>>> THEN BlankLine ELSE RowLine(row.cells)

csvLines(w) == [i \in 1..w.flushed |-> csvLine(w.rows[i])]

(***************************************************************************)
(* The values of the model.                                                *)
(***************************************************************************)
FieldValues(typ) ==
  CASE typ.time -> {[sec |-> 1, nsec |-> 0]}
    [] typ.mar # "none" -> {HookRejects(typ), ZeroValue(typ)}
    [] typ.kind = "string" -> {<<"a">>, <<>>}
    [] typ.kind \in IntKinds -> {7, -3}
    [] typ.kind = "uint" -> {5}
    [] typ.kind = "float64" -> {15}
    [] typ.kind = "bool" -> {TRUE}
    [] OTHER -> {[X |-> 0]}

\* the records of the first n fields of type t: one value per field, by position
RECURSIVE RecordsUpTo(_, _)
RecordsUpTo(t, n) ==
  IF n = 0 THEN {<<>>}
  ELSE {Append(r, v) : r \in RecordsUpTo(t, n - 1), v \in FieldValues(t[n].typ)}

Records(t) == RecordsUpTo(t, Len(t))

\* the sequences over S of length at most n
SeqsUpTo(S, n) == UNION {[1..m -> S] : m \in 0..n}

(***************************************************************************)
(* The state before anything is constructed.                               *)
(***************************************************************************)
NoCall ==
  [op |-> "none", err |-> "nil", given |-> <<>>, pulled |-> 0, n |-> 0,
   writes |-> 0, okrecs |-> <<>>, failed |-> FALSE]

NoTraversal ==
  [pc |-> "idle", yielded |-> <<>>, all |-> <<>>, stop |-> FALSE, cause |-> "none",
   outcome |-> "none", panicVal |-> NoError, sealed |-> FALSE]

NoCodec == [op |-> "none"]

WriterIdle == rw = NoWriter /\ wcall = NoCall
ReaderIdle == rb = NoReader /\ consumed = <<>> /\ trav = NoTraversal

writerVars == <<rw, csvw, wcall>>
readerVars == <<rb, src, consumed, trav>>

(***************************************************************************)
(* The Writer's operations.                                                *)
(***************************************************************************)
DoNewWriter ==
  /\ rw.state = "none"
  /\ rw' = NewWriter(T)
  /\ UNCHANGED <<T, csvw, wcall, readerVars, codec, filt>>

\* the first k of the records, those whose Write returned nil
Accepted(records, r) ==
  SubSeq(records, 1, IF r.err = "nil" THEN r.pulled ELSE r.pulled - 1)

DoWrite ==
  /\ rw.state = "ready"
  /\ wcall.n < MaxCalls
  /\ \E record \in Records(T) :
       \E r \in {Write(rw, csvw, record)} :
          /\ rw' = r.rw
          /\ csvw' = r.csvw
          /\ wcall' = [op |-> "Write", err |-> r.err, given |-> <<record>>,
                       pulled |-> 1, n |-> wcall.n + 1, writes |-> wcall.writes + 1,
                       okrecs |-> wcall.okrecs \o (IF r.err = "nil" THEN <<record>> ELSE <<>>),
                       failed |-> wcall.failed \/ r.err # "nil"]
  /\ UNCHANGED <<T, readerVars, codec, filt>>

DoWriteAll ==
  /\ rw.state = "ready"
  /\ wcall.n < MaxCalls
  /\ \E records \in SeqsUpTo(Records(T), MaxRecords) :
       \E r \in {WriteAll(rw, csvw, records, 1)} :
          /\ rw' = r.rw
          /\ csvw' = r.csvw
          /\ wcall' = [op |-> "WriteAll", err |-> r.err, given |-> records,
                       pulled |-> r.pulled, n |-> wcall.n + 1,
                       writes |-> wcall.writes + r.pulled,
                       okrecs |-> wcall.okrecs \o Accepted(records, r),
                       failed |-> wcall.failed \/ r.err # "nil"]
  /\ UNCHANGED <<T, readerVars, codec, filt>>

DoWriteHeader ==
  /\ rw.state = "ready"
  /\ wcall.n < MaxCalls
  /\ \E r \in {WriteHeader(rw, csvw)} :
        /\ rw' = r.rw
        /\ csvw' = r.csvw
        /\ wcall' = [wcall EXCEPT !.op = "WriteHeader", !.err = r.err, !.given = <<>>,
                                  !.pulled = 0, !.n = @ + 1,
                                  !.failed = @ \/ r.err # "nil"]
  /\ UNCHANGED <<T, readerVars, codec, filt>>

(***************************************************************************)
(* The Reader's operations.  All is a loop the consumer drives: DoAllBegin *)
(* enters it, DoAllYield is one turn that yields a record (the consumer    *)
(* answers whether to go on), DoAllEnd is the turn in which nextRow        *)
(* returns false.                                                          *)
(***************************************************************************)
DoNewReader ==
  /\ rb.state = "none"
  /\ \E r \in {NewReader(T, src)} :
        rb' = r.rb /\ src' = r.src
  /\ UNCHANGED <<T, writerVars, consumed, trav, codec, filt>>

\* rowboat.NewReader(strings.NewReader(buf.String())): the Writer's output is read back
DoReadBack ==
  /\ rw.state = "ready"
  /\ rb.state = "none"
  /\ wcall.n > 0
  /\ \E r \in {NewReader(T, csvLines(csvw))} :
        rb' = r.rb /\ src' = r.src
  /\ UNCHANGED <<T, writerVars, consumed, trav, codec, filt>>

DoAllBegin ==
  /\ rb.state = "ready"
  /\ trav.pc # "running"
  /\ trav' = [trav EXCEPT !.pc = "running", !.yielded = <<>>, !.stop = FALSE,
                          !.cause = "none", !.outcome = "none", !.panicVal = NoError,
                          !.sealed = @ \/ trav.cause \in {"eof", "error"}]
  /\ UNCHANGED <<T, writerVars, rb, src, consumed, codec, filt>>

DoAllYield ==
  /\ trav.pc = "running"
  /\ \E r \in {nextRow(T, rb, src, Len(consumed))} :
        /\ r.ok
        /\ rb' = r.rb
        /\ src' = r.src
        /\ consumed' = consumed \o SubSeq(src, 1, Len(src) - Len(r.src))
        /\ \E keepGoing \in BOOLEAN :
             \E next \in {AfterYield(r.rb, keepGoing)} :
                trav' = [trav EXCEPT !.yielded = Append(@, r.rb.current),
                                     !.all = Append(@, r.rb.current),
                                     !.stop = ~keepGoing,
                                     !.cause = IF keepGoing THEN "none" ELSE "stop",
                                     !.pc = IF next = "running" THEN "running" ELSE "ended",
                                     !.outcome = IF next = "running" THEN "none" ELSE next,
                                     !.panicVal = IF next = "panicked" THEN r.rb.err
                                                  ELSE NoError]
  /\ UNCHANGED <<T, writerVars, codec, filt>>

DoAllEnd ==
  /\ trav.pc = "running"
  /\ \E r \in {nextRow(T, rb, src, Len(consumed))} :
        /\ ~r.ok
        /\ rb' = r.rb
        /\ src' = r.src
        /\ consumed' = consumed \o SubSeq(src, 1, Len(src) - Len(r.src))
        /\ trav' = [trav EXCEPT !.pc = "ended", !.cause = r.saw,
                                !.outcome = AfterLoop(r.rb),
                                !.panicVal = IF AfterLoop(r.rb) = "panicked"
                                             THEN r.rb.err ELSE NoError]
  /\ UNCHANGED <<T, writerVars, codec, filt>>

(***************************************************************************)
(* The codec called as nextRow calls it (an addressable field of the new   *)
(* record) and as Write calls it (a field of the record passed by value).  *)
(***************************************************************************)
CodecKinds == {"string", "int", "int8", "uint", "float64", "bool", "struct"}
Receivers == {"none", "value", "pointer"}

CodecTypes ==
  {HookType(k, u, m) : k \in CodecKinds, u \in Receivers, m \in Receivers}
    \cup {TimeType}

CodecTexts ==
  {<<>>, <<"7">>, <<"x">>, <<"#", "7">>, <<"#", "x">>, <<"t", "r", "u", "e">>,
   <<"1", ".", "5">>, <<"T", "1", "Z">>, <<"3", "0", "0">>, <<"-", "1", "2", "8">>}

DoDecode ==
  /\ \E typ \in CodecTypes, value \in CodecTexts :
       codec' = [op |-> "decode", typ |-> typ, exported |-> TRUE, value |-> value,
                 res |-> setFieldValue(Reflected(typ, TRUE, TRUE, ZeroValue(typ)), value)]
  /\ UNCHANGED <<T, writerVars, readerVars, filt>>

DoEncode ==
  /\ \E typ \in CodecTypes, exported \in BOOLEAN :
       \E v \in FieldValues(typ) :
         codec' = [op |-> "encode", typ |-> typ, exported |-> exported, value |-> v,
                   res |-> getFieldStringValue(Reflected(typ, FALSE, exported, v))]
  /\ UNCHANGED <<T, writerVars, readerVars, filt>>

(***************************************************************************)
(* Filter(f, s).  The source s is a sequence over a slice, f is the set of  *)
(* the elements the predicate accepts.  DoFilterPull is one turn of the     *)
(* loop "for v := range s": the consumer answers the yield with keepGoing.  *)
(***************************************************************************)
NoFilter ==
  [pc |-> "none", s |-> <<>>, f |-> {}, pulled |-> 0, evals |-> <<>>, out |-> <<>>,
   stop |-> FALSE]

\* a loop body that goes on to the next element whatever yield returns
FilterIgnoresStop(f, v, keepGoing) ==
  [evals |-> 1, yields |-> v \in f, goOn |-> TRUE]

\* the body of Filter's loop for the element v: evals counts the calls of f,
\* yields says whether v is passed on, goOn whether the loop takes another turn
Filter(f, v, keepGoing) ==
  [evals |-> 1, yields |-> v \in f, goOn |-> IF v \in f THEN keepGoing ELSE TRUE]

DoFilterBegin ==
  /\ filt.pc = "idle"
  /\ filt' = [filt EXCEPT !.pc = "running"]
  /\ UNCHANGED <<T, writerVars, readerVars, codec>>

DoFilterPull ==
  /\ filt.pc = "running"
  /\ filt.pulled < Len(filt.s)
  /\ \E keepGoing \in BOOLEAN :
       \E r \in {Filter(filt.f, filt.s[filt.pulled + 1], keepGoing)} :
         /\ r.yields \/ keepGoing
         /\ filt' = [filt EXCEPT !.pulled = @ + 1,
                                 !.evals = Append(@, r.evals),
                                 !.out = IF r.yields
                                         THEN Append(@, filt.s[filt.pulled + 1]) ELSE @,
                                 !.stop = @ \/ (r.yields /\ ~keepGoing),
                                 !.pc = IF r.goOn THEN "running" ELSE "ended"]
  /\ UNCHANGED <<T, writerVars, readerVars, codec>>

\* the source is exhausted: the range loop and the function return
DoFilterEnd ==
  /\ filt.pc = "running"
  /\ filt.pulled = Len(filt.s)
  /\ filt' = [filt EXCEPT !.pc = "ended"]
  /\ UNCHANGED <<T, writerVars, readerVars, codec>>

FilterElems == 1..MaxElem

(***************************************************************************)
(* Record types and inputs of the specifications.                          *)
(***************************************************************************)
StringT == PlainType("string")
IntT == PlainType("int")
UintT == PlainType("uint")
BoolT == PlainType("bool")
FloatT == PlainType("float64")
\* the Point of the tests: UnmarshalCSV on *Point, MarshalCSV on Point
PointT == HookType("struct", "pointer", "value")

ResolveTags ==
  {NoTag, SkipTag, BadIndexTag, IndexTag(<<"-">>, 0)}
    \cup {IndexTag(<<>>, n) : n \in 0..MaxIndex}

ResolveTypes ==
  UNION {{[i \in 1..m |-> Decl(i - 1, tags[i], StringT, TRUE)] :
            tags \in [1..m -> ResolveTags]} : m \in 1..MaxFields}

ReaderTypes ==
  {<<Decl(0, NoTag, StringT, TRUE), Decl(1, NoTag, IntT, TRUE)>>,
   <<Decl(0, NameTag(<<"n">>), IntT, TRUE), Decl(1, IndexTag(<<>>, 0), BoolT, TRUE),
     Decl(2, SkipTag, IntT, TRUE)>>}

ReaderHeaders ==
  {<<<<"A">>, <<"B">>>>, <<<<"B">>, <<"A">>>>, <<<<"X">>, <<" ", "B">>>>,
   <<<<"A">>, <<"X">>, <<"B">>>>, <<<<"n">>, <<"B", " ">>, <<"C">>>>}

\* the lines under a header of n columns: blank, malformed, one column short,
\* and rows of "1" with at most one cell "x"
ReaderLines(n) ==
  {BlankLine, BadLine, RowLine([j \in 1..(n - 1) |-> <<"1">>])}
    \cup {RowLine([j \in 1..n |-> IF j = x THEN <<"x">> ELSE <<"1">>]) : x \in 0..n}

ReaderInputs ==
  UNION {{<<RowLine(h)>> \o lines : lines \in SeqsUpTo(ReaderLines(Len(h)), MaxLines)} :
           h \in ReaderHeaders}

WriterTypes ==
  {<<Decl(0, NoTag, BoolT, TRUE), Decl(1, NoTag, PointT, TRUE)>>,
   <<Decl(0, IndexTag(<<>>, 1), IntT, TRUE), Decl(1, IndexTag(<<>>, 0), BoolT, TRUE)>>,
   <<Decl(0, NoTag, BoolT, TRUE), Decl(1, NoTag, PlainType("struct"), TRUE)>>}

RoundTripTypes ==
  {<<Decl(0, NoTag, StringT, TRUE), Decl(1, NoTag, BoolT, TRUE)>>,
   <<Decl(0, NoTag, IntT, TRUE), Decl(1, NoTag, UintT, TRUE)>>,
   <<Decl(0, NoTag, BoolT, TRUE), Decl(1, NoTag, FloatT, TRUE)>>}

(***************************************************************************)
(* The specifications.                                                     *)
(*   Spec         a Writer's output read back by a Reader of the same type *)
(*   SpecResolve  the field resolver over the record types                 *)
(*   SpecCodec    the value codec over types and texts                     *)
(*   SpecReader   a Reader over inputs                                     *)
(*   SpecWriter   a Writer over calls, on a sink that may fail             *)
(*   SpecResolveWide  the field resolver over record types of 13 fields    *)
(*   SpecFilter   Filter over sources, predicates and consumers            *)
(***************************************************************************)
Init ==
  /\ T \in RoundTripTypes
  /\ csvw = NewCsvWriter(-1)
  /\ src = <<>>
  /\ WriterIdle /\ ReaderIdle /\ codec = NoCodec /\ filt = NoFilter

Next ==
  \/ DoNewWriter
  \/ DoWriteAll
  \/ DoReadBack
  \/ DoAllBegin
  \/ DoAllYield
  \/ DoAllEnd

Spec == Init /\ [][Next]_vars

InitResolve ==
  /\ T \in ResolveTypes
  /\ csvw = NewCsvWriter(-1)
  /\ src = <<>>
  /\ WriterIdle /\ ReaderIdle /\ codec = NoCodec /\ filt = NoFilter

NextResolve == DoNewWriter

SpecResolve == InitResolve /\ [][NextResolve]_vars

\* record types of maxInsertion + 1 fields, one or two of them with index=N
WideTypes ==
  {[i \in 1..(maxInsertion + 1) |->
      Decl(i - 1, IF i \in {p, q} THEN IndexTag(<<>>, n) ELSE NoTag, StringT, TRUE)] :
     p \in 1..(maxInsertion + 1), q \in 1..(maxInsertion + 1), n \in 0..MaxIndex}

InitResolveWide ==
  /\ T \in WideTypes
  /\ csvw = NewCsvWriter(-1)
  /\ src = <<>>
  /\ WriterIdle /\ ReaderIdle /\ codec = NoCodec /\ filt = NoFilter

NextResolveWide == DoNewWriter

SpecResolveWide == InitResolveWide /\ [][NextResolveWide]_vars

InitCodec ==
  /\ T = <<>>
  /\ csvw = NewCsvWriter(-1)
  /\ src = <<>>
  /\ WriterIdle /\ ReaderIdle /\ codec = NoCodec /\ filt = NoFilter

NextCodec ==
  \/ DoDecode
  \/ DoEncode

SpecCodec == InitCodec /\ [][NextCodec]_vars

InitReader ==
  /\ T \in ReaderTypes
  /\ csvw = NewCsvWriter(-1)
  /\ src \in ReaderInputs
  /\ WriterIdle /\ ReaderIdle /\ codec = NoCodec /\ filt = NoFilter

NextReader ==
  \/ DoNewReader
  \/ DoAllBegin
  \/ DoAllYield
  \/ DoAllEnd

SpecReader == InitReader /\ [][NextReader]_vars

InitWriter ==
  /\ T \in WriterTypes
  /\ \E quota \in -1..MaxCalls : csvw = NewCsvWriter(quota)
  /\ src = <<>>
  /\ WriterIdle /\ ReaderIdle /\ codec = NoCodec /\ filt = NoFilter

NextWriter ==
  \/ DoNewWriter
  \/ DoWrite
  \/ DoWriteAll
  \/ DoWriteHeader

SpecWriter == InitWriter /\ [][NextWriter]_vars

InitFilter ==
  /\ T = <<>>
  /\ csvw = NewCsvWriter(-1)
  /\ src = <<>>
  /\ WriterIdle /\ ReaderIdle /\ codec = NoCodec
  /\ \E s \in SeqsUpTo(FilterElems, MaxSource), f \in SUBSET FilterElems :
       filt = [NoFilter EXCEPT !.pc = "idle", !.s = s, !.f = f]

NextFilter == DoFilterBegin \/ DoFilterPull \/ DoFilterEnd

SpecFilter == InitFilter /\ [][NextFilter]_vars

(***************************************************************************)
(* What the claims speak of.                                               *)
(***************************************************************************)
\* the column name a field declares
DeclaredName(f) == IF f.tag.name # <<>> THEN f.tag.name ELSE f.name

\* the field declares index=N
HasExplicitIndex(f) == \E k \in 1..Len(f.tag.opts) : f.tag.opts[k][1] = "index"

\* the N of its (single) index=N
ExplicitIndex(f) == ParseInt(f.tag.opts[1][2]).n

\* the positions (1-based) of the fields of t that are kept, with and without index=N
ExplicitFields(t) == {p \in 1..Len(t) : t[p].tag # SkipTag /\ HasExplicitIndex(t[p])}
ImplicitFields(t) == {p \in 1..Len(t) : t[p].tag # SkipTag /\ ~HasExplicitIndex(t[p])}

DistinctExplicit(t) ==
  \A p, q \in ExplicitFields(t) :
    p # q => ExplicitIndex(t[p]) # ExplicitIndex(t[q])

\* the highest explicit N of t, -1 if there is none
MaxExplicit(t) ==
  IF ExplicitFields(t) = {} THEN -1
  ELSE CHOOSE n \in {ExplicitIndex(t[p]) : p \in ExplicitFields(t)} :
         \A q \in ExplicitFields(t) : ExplicitIndex(t[q]) <= n

\* C2 (as claimed): with distinct explicit index=N, a field that declares index=N
\* has ordinal N, also when N is its own declaration position; the fields without
\* index follow in declaration order from (highest N)+1; the order is ascending.
C2_ExplicitOrdinalPrecedence ==
  (rw.state = "ready" /\ DistinctExplicit(T)) =>
    /\ \A k \in 1..Len(rw.fields) :
         LET fi == rw.fields[k]
             f == fi.Field
         IN IF HasExplicitIndex(f) THEN fi.Index = ExplicitIndex(f)
            ELSE fi.Index = MaxExplicit(T)
                   + Cardinality({p \in ImplicitFields(T) : p <= f.pos + 1})
    /\ \A k \in 1..(Len(rw.fields) - 1) : rw.fields[k].Index < rw.fields[k + 1].Index

\* C5 (as claimed): a field whose type, or a pointer to it, has the hook is decoded
\* and encoded by the hook alone: the result is the hook's result or error.
C5_HookPrecedence ==
  /\ (codec.op = "decode" /\ codec.typ.unm # "none") =>
       /\ codec.res.via = "hook"
       /\ codec.res.err = UnmarshalCSV(codec.typ, codec.value).err
  /\ (codec.op = "encode" /\ codec.exported /\ codec.typ.mar # "none") =>
       /\ codec.res.via = "hook"
       /\ codec.res.err = MarshalCSV(codec.typ, codec.value).err
       /\ codec.res.text = MarshalCSV(codec.typ, codec.value).text

\* the columns (1-based) whose trimmed header is the name field f declares
MatchingColumns(f) ==
  {j \in 1..Len(rb.headers) : TrimSpace(rb.headers[j]) = DeclaredName(f)}

\* what field f of a record must hold after a row of these cells
ExpectedField(f, cells) ==
  IF f.tag = SkipTag \/ MatchingColumns(f) = {}
  THEN [err |-> FALSE, val |-> ZeroValue(f.typ)]
  ELSE LET j == CHOOSE c \in MatchingColumns(f) : \A d \in MatchingColumns(f) : d <= c
           r == setFieldValue(Reflected(f.typ, TRUE, TRUE, ZeroValue(f.typ)), cells[j])
       IN [err |-> r.err, val |-> r.val]

ExpectedRecord(cells) == [p \in 1..Len(T) |-> ExpectedField(T[p], cells).val]

\* a line that is a row of the header's width, every matched cell of which decodes
GoodRow(line) ==
  /\ line.k = "row"
  /\ Len(line.cells) = Len(rb.headers)
  /\ \A p \in 1..Len(T) : ~ExpectedField(T[p], line.cells).err

GoodRows == SelectSeq(consumed, GoodRow)

HasExtraneousColumn ==
  \E j \in 1..Len(rb.headers) :
    \A p \in 1..Len(T) : T[p].tag = SkipTag \/ TrimSpace(rb.headers[j]) # DeclaredName(T[p])

\* C3: with header columns that match no field, NewReader succeeds, every
\* yielded record holds, field by field, the decoded cell under the field's own
\* header column, and a decode error comes from a matched cell only.
C3_ExtraneousColumnsIgnored ==
  (rb.state # "none" /\ HasExtraneousColumn) =>
    /\ rb.state = "ready"
    /\ Len(trav.all) <= Len(GoodRows)
    /\ \A i \in 1..Len(trav.all) : trav.all[i] = ExpectedRecord(GoodRows[i].cells)
    /\ rb.err.kind = "decode" => ~GoodRow(consumed[rb.err.at])

C3_Witness ==
  /\ rb.headers = <<<<"A">>, <<"X">>, <<"B">>>>
  /\ trav.all = <<<<<<"1">>, 1>>>>
  /\ consumed = <<RowLine(<<<<"1">>, <<"x">>, <<"1">>>>)>>

NonBlank(line) == line.k # "blank"

\* C4: a blank line yields nothing and raises nothing; the records yielded are
\* as many as the non-empty rows read that did not fail.
C4_BlankRowsSkipped ==
  rb.state = "ready" =>
    /\ Len(trav.all) = Len(GoodRows)
    /\ rb.err # NoError => NonBlank(consumed[rb.err.at])

C4_Witness ==
  /\ Len(consumed) = 3
  /\ consumed[1].k = "row" /\ consumed[2].k = "blank" /\ consumed[3].k = "row"
  /\ Len(trav.all) = 2
  /\ rb.err = NoError

\* C6: when the consumer stops after a yielded record, All returns without
\* raising, whatever rows are still unread.
C6_EarlyTerminationClean ==
  (trav.pc = "ended" /\ trav.stop) =>
    trav.outcome = "returned" /\ trav.panicVal = NoError

C6_Witness ==
  /\ trav.pc = "ended" /\ trav.stop
  /\ \E i \in 1..Len(src) : src[i].k = "bad"

\* C8 (as claimed): once a traversal has ended at the end of the source or on an
\* error, a later traversal yields no record.
C8_SinglePass == trav.sealed => trav.yielded = <<>>

\* C9 (as claimed): a traversal that ends on an error has yielded the records of
\* the good rows before it and raises that row's error; a traversal that ends
\* at the end of the source raises nothing.
C9_ErrorsEndLoudly ==
  trav.pc = "ended" =>
    /\ trav.cause = "error" =>
         /\ trav.outcome = "panicked"
         /\ trav.panicVal = rb.err /\ rb.err.at = Len(consumed)
         /\ ~GoodRow(consumed[Len(consumed)])
         /\ Len(trav.all) = Len(GoodRows)
    /\ trav.cause = "eof" => trav.outcome = "returned"

\* the rows of the sink that are header rows, and those that are data rows
IsHeaderRow(row) == row.hdr
IsDataRow(row) == ~row.hdr
DataRows == SelectSeq(csvw.rows, IsDataRow)

\* the cells Write must emit for a record: its fields in resolved order
ExpectedCells(record) ==
  [i \in 1..Len(rw.fields) |->
     LET f == rw.fields[i].Field
     IN getFieldStringValue(Reflected(f.typ, FALSE, f.exported, record[f.pos + 1])).text]

EncodesOK(record) ==
  \A p \in 1..Len(T) :
    ~getFieldStringValue(Reflected(T[p].typ, FALSE, T[p].exported, record[p])).err

\* C7: once a write has been attempted, also one that failed on encoding, the
\* sink has received exactly one header row, the declared names in resolved
\* order, and it is the first row.
C7_ExactlyOneHeaderFirst ==
  wcall.writes > 0 =>
    /\ Len(SelectSeq(csvw.rows, IsHeaderRow)) = 1
    /\ csvw.rows[1].hdr
    /\ Len(csvw.rows[1].cells) = Len(rw.fields)
    /\ \A i \in 1..Len(rw.fields) :
         csvw.rows[1].cells[i] = DeclaredName(rw.fields[i].Field)
    /\ \A i \in 1..(Len(rw.fields) - 1) : rw.fields[i].Index < rw.fields[i + 1].Index

C7_Witness ==
  /\ wcall.op = "Write" /\ wcall.writes = 2
  /\ wcall.err = "nil"
  /\ wcall.failed
  /\ Len(csvw.rows) = 2

C1_RoundTrip ==
  /\ (wcall.writes > 0 /\ ~wcall.failed) =>
       /\ csvw.rows[1].cells = [p \in 1..Len(T) |-> T[p].name]
       /\ \A i \in 1..Len(DataRows) :
            DataRows[i].cells =
              [p \in 1..Len(T) |->
                 getFieldStringValue(
                   Reflected(T[p].typ, FALSE, T[p].exported, wcall.okrecs[i][p])).text]
  /\ (trav.pc = "ended" /\ trav.cause \in {"eof", "error"} /\ ~trav.sealed
        /\ ~wcall.failed) =>
       /\ trav.outcome = "returned"
       /\ trav.all = wcall.okrecs

\* C11: a Write that returns nil has delivered its rows: the sink did not fail
\* while the header row or the data row of this call was written or flushed,
\* and every row the Writer emitted has reached the io.Writer.
C11_SinkErrorsSurfaced ==
  (wcall.op = "Write" /\ wcall.err = "nil") =>
    /\ ~csvw.err
    /\ csvw.flushed = Len(csvw.rows)

\* the fields whose annotation has "-" as its name component
SkipFields == {p \in 1..Len(T) : T[p].tag.name = <<"-">>}

\* C12: a field whose annotation has the name component "-", with or without
\* further components, is in no mapping: the Writer has no entry for it (no
\* header column, no cell) and the Reader maps no column to it.
C12_SkipSentinel ==
  /\ rw.state = "ready" =>
       \A i \in 1..Len(rw.fields) : rw.fields[i].Field.pos + 1 \notin SkipFields
  /\ rb.state = "ready" =>
       \A idx \in DOMAIN rb.fieldMap : rb.fieldMap[idx].pos + 1 \notin SkipFields

\* the elements of s the predicate f accepts, in their order
RECURSIVE Accepts(_, _)
Accepts(s, f) ==
  IF s = <<>> THEN <<>>
  ELSE (IF Head(s) \in f THEN <<Head(s)>> ELSE <<>>) \o Accepts(Tail(s), f)

\* C13: Filter has yielded exactly the accepted ones of the elements it pulled,
\* in their order; f was evaluated once for each element pulled; after the
\* consumer stopped nothing more is pulled (the traversal has ended at the
\* element the consumer stopped on); a traversal that was not stopped ends
\* with the whole source pulled.
C13_Filter ==
  filt.pc \in {"running", "ended"} =>
    /\ filt.out = Accepts(SubSeq(filt.s, 1, filt.pulled), filt.f)
    /\ Len(filt.evals) = filt.pulled
    /\ \A i \in 1..filt.pulled : filt.evals[i] = 1
    /\ filt.stop =>
         /\ filt.pc = "ended"
         /\ filt.pulled >= 1
         /\ filt.out # <<>>
         /\ filt.out[Len(filt.out)] = filt.s[filt.pulled]
    /\ (filt.pc = "ended" /\ ~filt.stop) => filt.pulled = Len(filt.s)

\* a rejected element, then an accepted one on which the consumer stops, with
\* an accepted element left in the source
C13_Witness ==
  /\ filt.pc = "ended" /\ filt.stop
  /\ filt.pulled = 2 /\ Len(filt.s) = 3
  /\ filt.s[1] \notin filt.f
  /\ filt.s[3] \in filt.f
  /\ Len(filt.out) = 1

\* the values a signed integer field of kind k can hold
InRange(k, n) ==
  IntBits(k) = 64 \/ (n >= 0 - 2 ^ (IntBits(k) - 1) /\ n < 2 ^ (IntBits(k) - 1))

\* C14: decoding the text of an integer into a signed integer field fails when
\* the value is outside the range of the field's width, and otherwise stores
\* the value itself; no wrapped or truncated value is stored.
C14_IntegerOverflowIsError ==
  (/\ codec.op = "decode"
   /\ codec.typ.kind \in IntKinds
   /\ codec.res.via = "kind"
   /\ ~ParseInt(codec.value).err) =>
    IF InRange(codec.typ.kind, ParseInt(codec.value).n)
    THEN ~codec.res.err /\ codec.res.val = ParseInt(codec.value).n
    ELSE codec.res.err

\* C15: the resolved fields are in ascending order of their ordinals, fields of
\* equal ordinal are in declaration order, and resolving the record type again
\* gives the same order.
C15_StableResolution ==
  rw.state = "ready" =>
    /\ \A k \in 1..(Len(rw.fields) - 1) : rw.fields[k].Index <= rw.fields[k + 1].Index
    /\ \A k, l \in 1..Len(rw.fields) :
         (k < l /\ rw.fields[k].Index = rw.fields[l].Index) =>
           rw.fields[k].Field.pos < rw.fields[l].Field.pos
    /\ rw.fields = createFieldInfo(T).fields

====
